---------------------------- MODULE Spec2Model ----------------------------
(***************************************************************************)
(* A model of origin-data-infra's two scripts:                             *)
(*   scripts/migrate_sheets_to_supabase.py  (the Forward Migrator)         *)
(*   scripts/sync_to_sheets.py              (the Reconciliation Sync)      *)
(*                                                                         *)
(* Text that the code takes apart (strip, digit filtering, date parsing,   *)
(* substring search) is a tuple of one-character strings; text that the    *)
(* code only tests for emptiness and copies is a TLA+ string.  A nullable  *)
(* database value is None (SQL null / Python None) or Some(v).             *)
(***************************************************************************)
EXTENDS Integers, Sequences, FiniteSets, TLC

None == <<>>
Some(v) == <<v>>

Range(s) == {s[k] : k \in DOMAIN s}

Min(a, b) == IF a <= b THEN a ELSE b

(***************************************************************************)
(* Bounds of the model.                                                    *)
(***************************************************************************)
\* rows of the transactions table in the specifications of the sync
MaxTxns == 2
\* result sets up to this size are returned in every order
MaxPermute == 2
\* records beyond the select's limit in the backlog specification
MaxOver == 2
\* rows of the "All Transactions" sheet, and how many leading rows vary
MaxTxnRows == 501
MaxTxnVaried == 2
\* rows of the "Merchant Rules" and "Merchant Alias" sheets of a single run,
\* and how many leading rows vary
MaxSheetRows == 7
MaxSheetVaried == 2
\* rows of a sheet that is migrated twice
MaxReplayRows == 3
\* rows of each sheet when main runs the three migrations in a row
MaxMainRows == 1
\* longest text handed to parse_txn_count
MaxCountLen == 4
\* records in the table when two runs of the sync overlap
MaxOverlap == 2
\* rows of the sheet whose cells are absent, empty or filled in every way
MaxBuildRows == 1

(***************************************************************************)
(* Program constants.                                                      *)
(***************************************************************************)
\* sync_to_sheets.py:60  .limit(100)
SYNC_LIMIT == 100
\* the flush test of line 248 written with > for >=
batch_size_late == 100 + 1
\* migrate_sheets_to_supabase.py:211  batch_size = 100
batch_size == 100
\* migrate_sheets_to_supabase.py:137 and :189  if errors <= 5
MAX_SHOWN_ERRORS == 5

VARIABLES
    \* ---- the database and the spreadsheet
    transactions,   \* table transactions: sequence of records, id = position
    sheet,          \* worksheet "All Transactions": cell address -> cell text
    clock,          \* the wall clock datetime.now() reads
    cleared,        \* ids whose sheets_synced_at a downstream process cleared
    \* ---- sync_to_sheets(), one invocation at a time per process
    pc,             \* where each process's invocation stands
    result,         \* result.data of the select
    batch_updates,  \* the queued cell writes
    synced_ids,     \* the ids queued for stamping
    applied,        \* the cell addresses ws.batch_update wrote for this invocation
    returned,       \* the invocation's return value
    \* ---- migrate_transactions()
    txn_pc,         \* "idle", "loop" (inside the for loop) or "done"
    txn_runs,       \* invocations started
    txn_i,          \* rows of the sheet the loop has consumed
    txn_row,        \* the loop variable row
    batch,          \* the buffered records
    txn_migrated,   \* migrated
    txn_errors,     \* errors
    txn_printed,    \* error messages printed
    txn_calls,      \* the insert calls issued: the rows of each and its outcome
    \* ---- migrate_merchant_rules()
    merchant_rules, \* table merchant_rules: sequence of records, id = position
    rules_records,  \* the rows of sheet "Merchant Rules" read so far
    rules_pc,
    rules_runs,
    rules_i,        \* rows the loop has consumed
    rules_row,      \* the loop variable row
    rules_migrated,
    rules_errors,
    rules_printed,  \* error messages printed
    rules_calls,    \* upsert calls issued
    rules_prev,     \* what the run before this one left: rows of the table, errors
    \* ---- migrate_merchant_aliases()
    merchant_aliases, \* table merchant_aliases
    alias_records,  \* the rows of sheet "Merchant Alias" read so far
    alias_pc,
    alias_runs,
    alias_i,
    alias_row,
    alias_migrated,
    alias_errors,
    alias_printed,
    alias_calls,    \* insert calls issued
    alias_prev,     \* what the run before this one left: the table, errors
    alias_out,      \* what the last insert call did: ok or the failure's text
    \* ---- main() of the migrator
    environ,        \* os.environ: each required variable unset, empty or set
    main_pc,        \* where main() stands
    main_io,        \* the clients constructed and the verifier run, in order
    main_missing,   \* the variables the diagnostic lists
    \* ---- a call of parse_txn_count
    count_arg,      \* the argument
    count_out,      \* the value returned, once it has returned
    \* ---- the bounds of the specification
    cfg

syncVars == <<pc, result, batch_updates, synced_ids, applied, returned>>
storeVars == <<transactions, sheet, clock, cleared>>
txnVars == <<txn_pc, txn_runs, txn_i, txn_row, batch, txn_migrated, txn_errors,
             txn_printed, txn_calls>>
ruleVars == <<merchant_rules, rules_records, rules_pc, rules_runs, rules_i, rules_row,
              rules_migrated, rules_errors, rules_printed, rules_calls, rules_prev>>
aliasVars == <<merchant_aliases, alias_records, alias_pc, alias_runs, alias_i, alias_row,
               alias_migrated, alias_errors, alias_printed, alias_calls, alias_prev,
               alias_out>>
mainVars == <<environ, main_pc, main_io, main_missing>>
auxVars == <<mainVars, count_arg, count_out>>
migVars == <<txnVars, ruleVars, aliasVars, auxVars>>

Procs == {1, 2}

(***************************************************************************)
(* sync_to_sheets.py                                                       *)
(***************************************************************************)

\* the select with its second filter, on sheets_row_id, forgotten
DirtyAnyRow(tbl) ==
    {id \in DOMAIN tbl : tbl[id].sheets_synced_at = None}

\* .is_("sheets_synced_at", "null").not_.is_("sheets_row_id", "null")
Dirty(tbl) ==
    {id \in DOMAIN tbl :
        /\ tbl[id].sheets_synced_at = None
        /\ tbl[id].sheets_row_id # None}

\* the ids of S in ascending order
Ascending(S) ==
    IF S = {} THEN <<>>
    ELSE LET top == CHOOSE x \in S : \A y \in S : y <= x
         IN SelectSeq([k \in 1..top |-> k], LAMBDA x : x \in S)

\* the select with its .limit(100) forgotten
NoLimit(D, n) == {D}

\* .limit(n) with no .order(): which n of the matching rows are returned is
\* the store's choice; the model lets it return any n that are consecutive
\* in id order
LimitChoices(D, n) ==
    IF Cardinality(D) <= n THEN {D}
    ELSE LET asc == Ascending(D)
         IN {{asc[k] : k \in (j + 1)..(j + n)} : j \in 0..(Len(asc) - n)}

\* the orders in which the store may return the rows S: unspecified without
\* .order(); every order for a small result, id order for a large one
Orders(S) ==
    IF Cardinality(S) <= MaxPermute
    THEN {f \in [1..Cardinality(S) -> S] : \A a, b \in DOMAIN f : f[a] = f[b] => a = b}
    ELSE {Ascending(S)}

\* .select("id, sheets_row_id, status, qb_account")
SelectRow(tbl, id) ==
    [id |-> id,
     sheets_row_id |-> tbl[id].sheets_row_id,
     status |-> tbl[id].status,
     qb_account |-> tbl[id].qb_account]

\* a null written as the text of None instead of an empty cell
OrEmptyKeep(v) == IF v = None THEN "None" ELSE v[1]

\* row["status"] or ""
OrEmpty(v) == IF v = None THEN "" ELSE v[1]

\* both writes of a row addressed to column A
CellColumnA(col, sheets_row) == [col |-> "A", row |-> sheets_row]

\* f"A{sheets_row}", f"F{sheets_row}"
Cell(col, sheets_row) == [col |-> col, row |-> sheets_row]

\* the two queued writes of one selected row (lines 79-85)
RowUpdates(row) ==
    << [range |-> Cell("A", row.sheets_row_id), values |-> OrEmpty(row.status)],
       [range |-> Cell("F", row.sheets_row_id), values |-> OrEmpty(row.qb_account)] >>

\* the for loop of lines 78-88 over result.data: the writes of the first
\* row, then those of the second, ...
BuildUpdates(data) ==
    [k \in 1..(2 * Len(data)) |-> RowUpdates(data[(k + 1) \div 2])[2 - (k % 2)]]

BuildIds(data) == [k \in DOMAIN data |-> data[k].id]

\* ws.batch_update: the writes applied in order, a later one over an earlier
ApplyBatch(sh, ups) ==
    LET written == {ups[k].range : k \in DOMAIN ups}
        at(a) == {k \in DOMAIN ups : ups[k].range = a}
        last(a) == CHOOSE k \in at(a) : \A j \in at(a) : j <= k
    IN [a \in DOMAIN sh \cup written |->
           IF a \in written THEN ups[last(a)].values ELSE sh[a]]

\* when cron may start a run of the sync: at any time, or only while no
\* migration is inside its loop
MayStartSync ==
    \/ cfg.sync = "always"
    \/ /\ cfg.sync = "after"
       /\ txn_pc # "loop"

\* lines 55-88: the select, the early return, the two lists
SyncSelect(p) ==
    /\ MayStartSync
    /\ pc[p] \in {"idle", "done", "crashed"}
    /\ \E S \in LimitChoices(Dirty(transactions), SYNC_LIMIT) :
       \E ord \in Orders(S) :
          LET data == [k \in DOMAIN ord |-> SelectRow(transactions, ord[k])]
          IN /\ result' = [result EXCEPT ![p] = data]
             /\ IF data = <<>>
                THEN /\ pc' = [pc EXCEPT ![p] = "done"]
                     /\ returned' = [returned EXCEPT ![p] = Some(0)]
                     /\ batch_updates' = [batch_updates EXCEPT ![p] = <<>>]
                     /\ synced_ids' = [synced_ids EXCEPT ![p] = <<>>]
                ELSE /\ pc' = [pc EXCEPT ![p] = "built"]
                     /\ returned' = [returned EXCEPT ![p] = None]
                     /\ batch_updates' = [batch_updates EXCEPT ![p] = BuildUpdates(data)]
                     /\ synced_ids' = [synced_ids EXCEPT ![p] = BuildIds(data)]
    /\ applied' = [applied EXCEPT ![p] = {}]
    /\ UNCHANGED <<storeVars, migVars, cfg>>

\* the batched request with its failure swallowed: the run goes on to the
\* stamping although nothing was written
SyncBatchUpdateSwallow(p) ==
    /\ pc[p] = "built"
    /\ \E ok \in BOOLEAN :
          IF ok
          THEN /\ sheet' = ApplyBatch(sheet, batch_updates[p])
               /\ applied' = [applied EXCEPT ![p] =
                                 {batch_updates[p][k].range : k \in DOMAIN batch_updates[p]}]
               /\ pc' = [pc EXCEPT ![p] = "written"]
          ELSE /\ pc' = [pc EXCEPT ![p] = "written"]
               /\ UNCHANGED <<sheet, applied>>
    /\ UNCHANGED <<transactions, clock, cleared, result, batch_updates, synced_ids, returned>>
    /\ UNCHANGED <<migVars, cfg>>

\* lines 91-92: one batched request; a failure raises out of sync_to_sheets
SyncBatchUpdate(p) ==
    /\ pc[p] = "built"
    /\ \E ok \in BOOLEAN :
          IF ok
          THEN /\ sheet' = ApplyBatch(sheet, batch_updates[p])
               /\ applied' = [applied EXCEPT ![p] =
                                 {batch_updates[p][k].range : k \in DOMAIN batch_updates[p]}]
               /\ pc' = [pc EXCEPT ![p] = "written"]
          ELSE /\ pc' = [pc EXCEPT ![p] = "crashed"]
               /\ UNCHANGED <<sheet, applied>>
    /\ UNCHANGED <<transactions, clock, cleared, result, batch_updates, synced_ids, returned>>
    /\ UNCHANGED <<migVars, cfg>>

\* the bulk update with its .in_("id", synced_ids) filter forgotten
StampAll(tbl, ids, now) ==
    [id \in DOMAIN tbl |-> [tbl[id] EXCEPT !.sheets_synced_at = Some(now)]]

\* .update({"sheets_synced_at": now}).in_("id", synced_ids)
StampIds(tbl, ids, now) ==
    [id \in DOMAIN tbl |->
        IF id \in ids THEN [tbl[id] EXCEPT !.sheets_synced_at = Some(now)] ELSE tbl[id]]

\* the bulk update issued without waiting for the sheet write
SyncStampEarly(p) ==
    /\ pc[p] \in {"built", "written"}
    /\ \E ok \in BOOLEAN :
          IF ok
          THEN /\ transactions' = [id \in DOMAIN transactions |->
                                      IF id \in Range(synced_ids[p])
                                      THEN [transactions[id] EXCEPT
                                               !.sheets_synced_at = Some(clock)]
                                      ELSE transactions[id]]
               /\ pc' = [pc EXCEPT ![p] = "done"]
               /\ returned' = [returned EXCEPT ![p] = Some(Len(synced_ids[p]))]
          ELSE /\ pc' = [pc EXCEPT ![p] = "crashed"]
               /\ UNCHANGED <<transactions, returned>>
    /\ UNCHANGED <<sheet, clock, cleared, result, batch_updates, synced_ids, applied>>
    /\ UNCHANGED <<migVars, cfg>>

\* lines 95-103: the bulk update, then the return
SyncStamp(p) ==
    /\ pc[p] = "written"
    /\ \E ok \in BOOLEAN :
          IF ok
          THEN /\ transactions' = StampIds(transactions, Range(synced_ids[p]), clock)
               /\ pc' = [pc EXCEPT ![p] = "done"]
               /\ returned' = [returned EXCEPT ![p] = Some(Len(synced_ids[p]))]
          ELSE /\ pc' = [pc EXCEPT ![p] = "crashed"]
               /\ UNCHANGED <<transactions, returned>>
    /\ UNCHANGED <<sheet, clock, cleared, result, batch_updates, synced_ids, applied>>
    /\ UNCHANGED <<migVars, cfg>>

(***************************************************************************)
(* Text helpers: a text is a tuple of one-character strings.               *)
(***************************************************************************)
Digit == {"0", "1", "2", "3", "4", "5", "6", "7", "8", "9"}

DigitVal(c) ==
    CASE c = "0" -> 0 [] c = "1" -> 1 [] c = "2" -> 2 [] c = "3" -> 3
      [] c = "4" -> 4 [] c = "5" -> 5 [] c = "6" -> 6 [] c = "7" -> 7
      [] c = "8" -> 8 [] c = "9" -> 9

DigitChar(n) ==
    CASE n = 0 -> "0" [] n = 1 -> "1" [] n = 2 -> "2" [] n = 3 -> "3"
      [] n = 4 -> "4" [] n = 5 -> "5" [] n = 6 -> "6" [] n = 7 -> "7"
      [] n = 8 -> "8" [] n = 9 -> "9"

\* str.isspace() on the characters the model's texts use
IsSpace(c) == c \in {" ", "\t"}

AllDigits(t) == \A k \in DOMAIN t : t[k] \in Digit

\* int() of a text of digits
RECURSIVE ToInt(_)
ToInt(t) ==
    IF t = <<>> THEN 0
    ELSE 10 * ToInt(SubSeq(t, 1, Len(t) - 1)) + DigitVal(t[Len(t)])

RECURSIVE LStrip(_)
LStrip(t) ==
    IF t # <<>> /\ IsSpace(Head(t)) THEN LStrip(Tail(t)) ELSE t

RECURSIVE RStrip(_)
RStrip(t) ==
    IF t # <<>> /\ IsSpace(t[Len(t)]) THEN RStrip(SubSeq(t, 1, Len(t) - 1)) ELSE t

\* the cell taken as it is, .strip() forgotten
StripNone(t) == t

\* str.strip()
Strip(t) == RStrip(LStrip(t))

\* the parts of t between occurrences of sep
RECURSIVE SplitOn(_, _)
SplitOn(t, sep) ==
    IF \A k \in DOMAIN t : t[k] # sep THEN <<t>>
    ELSE LET k == CHOOSE j \in DOMAIN t : t[j] = sep /\ \A h \in 1..(j - 1) : t[h] # sep
         IN <<SubSeq(t, 1, k - 1)>> \o SplitOn(SubSeq(t, k + 1, Len(t)), sep)

\* dict.get(key, default)
Get(row, key, default) == IF key \in DOMAIN row THEN row[key] ELSE default

\* row.get(key) or None, for a cell the code only copies (a TLA+ string)
GetOrNone(row, key) ==
    IF key \notin DOMAIN row \/ row[key] = "" THEN None ELSE Some(row[key])

\* row.get(key, default) without the "or default"
GetOrDefaultAbsentOnly(row, key, default) == Get(row, key, default)

\* row.get(key, default) or default
GetOrDefault(row, key, default) ==
    IF key \notin DOMAIN row \/ row[key] = "" THEN default ELSE row[key]

\* row.get(key) or None, for a cell that is a text
GetTextOrNone(row, key) ==
    IF key \notin DOMAIN row \/ row[key] = <<>> THEN None ELSE Some(row[key])

(***************************************************************************)
(* migrate_sheets_to_supabase.py: the Normalizer                           *)
(***************************************************************************)

\* strptime's %m: 1[0-2]|0[1-9]|[1-9]
MonthField(t) ==
    /\ Len(t) \in {1, 2}
    /\ AllDigits(t)
    /\ ToInt(t) \in 1..12

\* strptime's %d: 3[01]|[12]\d|0[1-9]|[1-9]| [1-9]
DayField(t) ==
    \/ /\ Len(t) \in {1, 2}
       /\ AllDigits(t)
       /\ ToInt(t) \in 1..31
    \/ /\ Len(t) = 2
       /\ t[1] = " "
       /\ t[2] \in Digit \ {"0"}

DayValue(t) == IF t[1] = " " THEN DigitVal(t[2]) ELSE ToInt(t)

IsLeap(y) == (y % 4 = 0 /\ y % 100 # 0) \/ y % 400 = 0

DaysIn(y, m) ==
    IF m = 2 THEN (IF IsLeap(y) THEN 29 ELSE 28)
    ELSE IF m \in {4, 6, 9, 11} THEN 30 ELSE 31

\* datetime(y, m, d) is a date: MINYEAR is 1
ValidDate(y, m, d) == y >= 1 /\ m \in 1..12 /\ d \in 1..DaysIn(y, m)

Pad2(n) == <<DigitChar(n \div 10), DigitChar(n % 10)>>

\* strftime("%Y-%m-%d") of a year of four digits
IsoDate(y, m, d) ==
    <<DigitChar(y \div 1000), DigitChar((y \div 100) % 10),
      DigitChar((y \div 10) % 10), DigitChar(y % 10)>>
    \o <<"-">> \o Pad2(m) \o <<"-">> \o Pad2(d)

\* datetime.strptime(t, "%Y-%m-%d"): None stands for ValueError
StrptimeYmd(t) ==
    LET ps == SplitOn(t, "-")
    IN IF /\ Len(ps) = 3
          /\ Len(ps[1]) = 4 /\ AllDigits(ps[1])
          /\ MonthField(ps[2]) /\ DayField(ps[3])
          /\ ValidDate(ToInt(ps[1]), ToInt(ps[2]), DayValue(ps[3]))
       THEN Some(IsoDate(ToInt(ps[1]), ToInt(ps[2]), DayValue(ps[3])))
       ELSE None

\* datetime.strptime(t, "%m/%d/%Y")
StrptimeMdY(t) ==
    LET ps == SplitOn(t, "/")
    IN IF /\ Len(ps) = 3
          /\ MonthField(ps[1]) /\ DayField(ps[2])
          /\ Len(ps[3]) = 4 /\ AllDigits(ps[3])
          /\ ValidDate(ToInt(ps[3]), ToInt(ps[1]), DayValue(ps[2]))
       THEN Some(IsoDate(ToInt(ps[3]), ToInt(ps[1]), DayValue(ps[2])))
       ELSE None

\* %y: 69..99 is 1969..1999, 00..68 is 2000..2068
Century(yy) == IF yy >= 69 THEN 1900 + yy ELSE 2000 + yy

\* datetime.strptime(t, "%m/%d/%y")
StrptimeMdy2(t) ==
    LET ps == SplitOn(t, "/")
    IN IF /\ Len(ps) = 3
          /\ MonthField(ps[1]) /\ DayField(ps[2])
          /\ Len(ps[3]) = 2 /\ AllDigits(ps[3])
          /\ ValidDate(Century(ToInt(ps[3])), ToInt(ps[1]), DayValue(ps[2]))
       THEN Some(IsoDate(Century(ToInt(ps[3])), ToInt(ps[1]), DayValue(ps[2])))
       ELSE None

\* parse_date: the first format that matches, None when none does
parse_date(date_str) ==
    IF date_str = <<>> THEN None
    ELSE IF StrptimeYmd(date_str) # None THEN StrptimeYmd(date_str)
    ELSE IF StrptimeMdY(date_str) # None THEN StrptimeMdY(date_str)
    ELSE StrptimeMdy2(date_str)

\* now_utc(): the wall clock's reading
now_utc == clock

(***************************************************************************)
(* migrate_sheets_to_supabase.py: migrate_transactions                     *)
(***************************************************************************)
NEEDS_REVIEW == "NEEDS REVIEW"
\* the warning glyph of line 237
WARNING_GLYPH == "(warning sign)"

\* the record of a row built without the stamp of line 242
BuildTxnUnstamped(row, i, date) ==
    [date |-> date,
     raw_merchant |-> GetTextOrNone(row, "Raw Merchant"),
     merchant |-> IF GetTextOrNone(row, "Std Merchant") # None
                  THEN GetTextOrNone(row, "Std Merchant")
                  ELSE GetTextOrNone(row, "Raw Merchant"),
     entity |-> GetOrDefault(row, "Entity", NEEDS_REVIEW),
     qb_account |-> GetOrNone(row, "QB Account"),
     status |-> Some(GetOrDefault(row, "Status", WARNING_GLYPH)),
     sheets_row_id |-> Some(i),
     sheets_synced_at |-> None]

\* lines 230-243: the record of a row with a parseable date (the amount, the
\* source account, the card number and the notes are left out)
BuildTxn(row, i, date) ==
    [date |-> date,
     raw_merchant |-> GetTextOrNone(row, "Raw Merchant"),
     merchant |-> IF GetTextOrNone(row, "Std Merchant") # None
                  THEN GetTextOrNone(row, "Std Merchant")
                  ELSE GetTextOrNone(row, "Raw Merchant"),
     entity |-> GetOrDefault(row, "Entity", NEEDS_REVIEW),
     qb_account |-> GetOrNone(row, "QB Account"),
     status |-> Some(GetOrDefault(row, "Status", WARNING_GLYPH)),
     sheets_row_id |-> Some(i),
     sheets_synced_at |-> Some(now_utc)]

\* supabase.table("transactions").insert(batch): ids are assigned in order
InsertTxns(tbl, rows) == tbl \o rows

RowIds(rows) == [k \in DOMAIN rows |-> rows[k].sheets_row_id[1]]

\* the rows the sheet may hold at position k (1 is the first data row)
TxnRowsAt(k) == IF k <= cfg.txnVaried THEN cfg.txnKinds ELSE cfg.txnRest

\* lines 204-211: the sheet is read, the counters are reset
TxnStart ==
    /\ txn_pc \in {"idle", "done"}
    /\ txn_runs < cfg.txnRuns
    /\ txn_pc' = "loop"
    /\ txn_runs' = txn_runs + 1
    /\ txn_i' = 0
    /\ txn_row' = None
    /\ batch' = <<>>
    /\ txn_migrated' = 0
    /\ txn_errors' = 0
    /\ txn_printed' = 0
    /\ txn_calls' = <<>>
    /\ UNCHANGED <<storeVars, syncVars, ruleVars, aliasVars, auxVars, cfg>>

\* lines 220-257: one iteration of the for loop
TxnRow ==
    /\ txn_pc = "loop"
    /\ txn_i < cfg.txnRows
    /\ Len(transactions) + Len(batch) < cfg.txnCap
    /\ \E row \in TxnRowsAt(txn_i + 1) :
          LET i == txn_i + 2
              date == parse_date(Get(row, "Date", <<>>))
          IN /\ txn_row' = Some(row)
             /\ txn_i' = txn_i + 1
             /\ IF date = None
                THEN UNCHANGED <<batch, txn_migrated, txn_errors, txn_printed,
                                 txn_calls, transactions>>
                ELSE LET full == Append(batch, BuildTxn(row, i, date[1]))
                     IN IF Len(full) >= batch_size
                        THEN /\ batch' = <<>>
                             /\ \E ok \in BOOLEAN :
                                   /\ txn_calls' = Append(txn_calls,
                                          [rows |-> RowIds(full), ok |-> ok])
                                   /\ IF ok
                                      THEN /\ transactions' = InsertTxns(transactions, full)
                                           /\ txn_migrated' = txn_migrated + Len(full)
                                           /\ UNCHANGED <<txn_errors, txn_printed>>
                                      ELSE /\ txn_errors' = txn_errors + Len(full)
                                           /\ txn_printed' = txn_printed + 1
                                           /\ UNCHANGED <<txn_migrated, transactions>>
                        ELSE /\ batch' = full
                             /\ UNCHANGED <<txn_migrated, txn_errors, txn_printed,
                                            txn_calls, transactions>>
    /\ UNCHANGED <<txn_pc, txn_runs, sheet, clock, cleared, syncVars, ruleVars, aliasVars, auxVars, cfg>>

\* lines 259-271: the sheet is exhausted; the remainder is inserted
TxnEnd ==
    /\ txn_pc = "loop"
    /\ txn_pc' = "done"
    /\ IF batch # <<>>
       THEN \E ok \in BOOLEAN :
               /\ txn_calls' = Append(txn_calls, [rows |-> RowIds(batch), ok |-> ok])
               /\ IF ok
                  THEN /\ transactions' = InsertTxns(transactions, batch)
                       /\ txn_migrated' = txn_migrated + Len(batch)
                       /\ UNCHANGED <<txn_errors, txn_printed>>
                  ELSE /\ txn_errors' = txn_errors + Len(batch)
                       /\ txn_printed' = txn_printed + 1
                       /\ UNCHANGED <<txn_migrated, transactions>>
       ELSE UNCHANGED <<txn_migrated, txn_errors, txn_printed, txn_calls, transactions>>
    /\ UNCHANGED <<txn_runs, txn_i, txn_row, batch, sheet, clock, cleared, syncVars,
                   ruleVars, aliasVars, auxVars, cfg>>

(***************************************************************************)
(* migrate_sheets_to_supabase.py: migrate_merchant_rules                   *)
(***************************************************************************)
\* a cell get_all_records returns as a number, and one it returns as text
IntCell(n) == [kind |-> "int", v |-> n]
TextCell(t) == [kind |-> "text", v |-> t]

IsDigitChar(c) == c \in Digit

\* parse_txn_count with int() applied to the text itself, nothing removed
parse_txn_count_strict(count_str) ==
    IF count_str.kind = "int"
    THEN count_str.v
    ELSE IF count_str.v # <<>> /\ AllDigits(count_str.v) THEN ToInt(count_str.v) ELSE 0

\* parse_txn_count
parse_txn_count(count_str) ==
    IF count_str.kind = "int"
    THEN count_str.v
    ELSE LET cleaned == SelectSeq(count_str.v, IsDigitChar)
         IN IF cleaned = <<>> THEN 0 ELSE ToInt(cleaned)

\* the record of a rule numbered as if enumerate started at 1
BuildRuleFromOne(row, i) ==
    [merchant |-> Strip(Get(row, "Merchant", <<>>)),
     entity_default |-> GetOrDefault(row, "Current Entity", NEEDS_REVIEW),
     txn_count |-> parse_txn_count(Get(row, "Txn Count", IntCell(0))),
     sheets_row_id |-> Some(i - 1),
     sheets_synced_at |-> Some(now_utc)]

\* lines 121-130 (the two account columns and the notes are left out)
BuildRule(row, i) ==
    [merchant |-> Strip(Get(row, "Merchant", <<>>)),
     entity_default |-> GetOrDefault(row, "Current Entity", NEEDS_REVIEW),
     txn_count |-> parse_txn_count(Get(row, "Txn Count", IntCell(0))),
     sheets_row_id |-> Some(i),
     sheets_synced_at |-> Some(now_utc)]

\* an upsert that keeps the row it finds (ignore_duplicates)
UpsertKeepFirst(tbl, data) ==
    IF \E k \in DOMAIN tbl : tbl[k].merchant = data.merchant
    THEN tbl
    ELSE Append(tbl, data)

\* a plain insert in the place of the upsert
UpsertAppend(tbl, data) == Append(tbl, data)

\* .upsert(data, on_conflict="merchant"): the row of that merchant is
\* overwritten, or a new row is added
Upsert(tbl, data) ==
    IF \E k \in DOMAIN tbl : tbl[k].merchant = data.merchant
    THEN [k \in DOMAIN tbl |-> IF tbl[k].merchant = data.merchant THEN data ELSE tbl[k]]
    ELSE Append(tbl, data)

\* every error message printed, the test of line 137 forgotten
ShownAlways(n) == 1

\* whether the message of the n-th error is printed (line 137, line 189)
Shown(n) == IF n <= MAX_SHOWN_ERRORS THEN 1 ELSE 0

RuleRowsAt(k) == IF k <= cfg.ruleVaried THEN cfg.ruleKinds ELSE cfg.ruleRest

\* lines 101-106: the sheet is read, the counters are reset
RulesStart ==
    /\ rules_pc \in {"idle", "done"}
    /\ rules_runs < cfg.ruleRuns
    /\ rules_pc' = "loop"
    /\ rules_runs' = rules_runs + 1
    /\ rules_i' = 0
    /\ rules_row' = None
    /\ rules_migrated' = 0
    /\ rules_errors' = 0
    /\ rules_printed' = 0
    /\ rules_calls' = 0
    /\ rules_prev' = [rows |-> Len(merchant_rules), errors |-> rules_errors]
    /\ UNCHANGED <<merchant_rules, rules_records, storeVars, syncVars, txnVars,
                   aliasVars, auxVars, cfg>>

\* the body of the for loop, lines 116-140, for the row at position rules_i + 1
RulesBody(row) ==
    LET i == rules_i + 2
        merchant == Strip(Get(row, "Merchant", <<>>))
    IN /\ rules_row' = Some(row)
       /\ rules_i' = rules_i + 1
       /\ IF merchant = <<>>
          THEN UNCHANGED <<merchant_rules, rules_migrated, rules_errors,
                           rules_printed, rules_calls>>
          ELSE /\ rules_calls' = rules_calls + 1
               /\ \E ok \in BOOLEAN :
                     IF ok
                     THEN /\ merchant_rules' = Upsert(merchant_rules, BuildRule(row, i))
                          /\ rules_migrated' = rules_migrated + 1
                          /\ UNCHANGED <<rules_errors, rules_printed>>
                     ELSE /\ rules_errors' = rules_errors + 1
                          /\ rules_printed' = rules_printed + Shown(rules_errors + 1)
                          /\ UNCHANGED <<merchant_rules, rules_migrated>>

\* one iteration of the for loop: the first run reads a further row of the
\* sheet, a later run reads the sheet the first one read
RulesRow ==
    /\ rules_pc = "loop"
    /\ IF rules_i < Len(rules_records)
       THEN /\ RulesBody(rules_records[rules_i + 1])
            /\ UNCHANGED rules_records
       ELSE /\ rules_runs = 1
            /\ rules_i < cfg.ruleRows
            /\ \E row \in RuleRowsAt(rules_i + 1) :
                  /\ RulesBody(row)
                  /\ rules_records' = Append(rules_records, row)
    /\ UNCHANGED <<rules_pc, rules_runs, rules_prev, storeVars, syncVars, txnVars,
                   aliasVars, auxVars, cfg>>

\* lines 142-145: the sheet is exhausted
RulesEnd ==
    /\ rules_pc = "loop"
    /\ rules_i = Len(rules_records)
    /\ rules_pc' = "done"
    /\ UNCHANGED <<merchant_rules, rules_records, rules_runs, rules_i, rules_row,
                   rules_migrated, rules_errors, rules_printed, rules_calls, rules_prev,
                   storeVars, syncVars, txnVars, aliasVars, auxVars, cfg>>

(***************************************************************************)
(* migrate_sheets_to_supabase.py: migrate_merchant_aliases                 *)
(***************************************************************************)
UpperCase == <<"A", "B", "C", "D", "E", "F", "G", "H", "I", "J", "K", "L", "M",
               "N", "O", "P", "Q", "R", "S", "T", "U", "V", "W", "X", "Y", "Z">>
LowerCase == <<"a", "b", "c", "d", "e", "f", "g", "h", "i", "j", "k", "l", "m",
               "n", "o", "p", "q", "r", "s", "t", "u", "v", "w", "x", "y", "z">>

\* the failure's text searched as it is, .lower() forgotten
LowerNone(t) == t

\* str.lower()
Lower(t) ==
    [k \in DOMAIN t |->
        IF \E j \in DOMAIN UpperCase : UpperCase[j] = t[k]
        THEN LowerCase[CHOOSE j \in DOMAIN UpperCase : UpperCase[j] = t[k]]
        ELSE t[k]]

\* sub in t
Contains(sub, t) ==
    \E k \in 1..(Len(t) - Len(sub) + 1) : SubSeq(t, k, k + Len(sub) - 1) = sub

TxtDuplicate == <<"d", "u", "p", "l", "i", "c", "a", "t", "e">>

\* "duplicate" not in str(e).lower()
NotDuplicate(msg) == ~Contains(TxtDuplicate, Lower(msg))

\* the texts of the failures of the store
MsgDuplicateKey == <<"D", "u", "p", "l", "i", "c", "a", "t", "e", " ", "k", "e", "y">>
MsgConflict == <<"4", "0", "9", " ", "C", "o", "n", "f", "l", "i", "c", "t">>
MsgTimeout == <<"t", "i", "m", "e", "o", "u", "t">>

\* lines 174-179 (the notes are left out)
BuildAlias(row) ==
    [raw_merchant |-> Strip(Get(row, "Raw Merchant", <<>>)),
     std_merchant |-> Strip(Get(row, "Std Merchant", <<>>)),
     source |-> GetOrNone(row, "Source")]

PairPresent(tbl, data) ==
    \E k \in DOMAIN tbl :
        /\ tbl[k].raw_merchant = data.raw_merchant
        /\ tbl[k].std_merchant = data.std_merchant

\* what .insert(data).execute() may do: the store refuses a pair it holds with
\* a duplicate failure, and any call may fail for another reason
InsertOutcomes(tbl, data) ==
    (IF PairPresent(tbl, data)
     THEN {[ok |-> FALSE, msg |-> MsgDuplicateKey]}
     ELSE {[ok |-> TRUE, msg |-> <<>>]})
    \cup {[ok |-> FALSE, msg |-> m] : m \in cfg.aliasFailures}

AliasRowsAt(k) == IF k <= cfg.aliasVaried THEN cfg.aliasKinds ELSE cfg.aliasRest

\* lines 152-157
AliasStart ==
    /\ alias_pc \in {"idle", "done"}
    /\ alias_runs < cfg.aliasRuns
    /\ alias_pc' = "loop"
    /\ alias_runs' = alias_runs + 1
    /\ alias_i' = 0
    /\ alias_row' = None
    /\ alias_migrated' = 0
    /\ alias_errors' = 0
    /\ alias_printed' = 0
    /\ alias_calls' = 0
    /\ alias_prev' = [table |-> merchant_aliases, errors |-> alias_errors]
    /\ alias_out' = None
    /\ UNCHANGED <<merchant_aliases, alias_records, storeVars, syncVars, txnVars,
                   ruleVars, auxVars, cfg>>

\* the body of the loop with migrated counted for a refused duplicate too
AliasBodyCountsDuplicate(row) ==
    LET data == BuildAlias(row)
    IN /\ alias_row' = Some(row)
       /\ alias_i' = alias_i + 1
       /\ IF data.raw_merchant = <<>> \/ data.std_merchant = <<>>
          THEN UNCHANGED <<merchant_aliases, alias_migrated, alias_errors,
                           alias_printed, alias_calls, alias_out>>
          ELSE /\ alias_calls' = alias_calls + 1
               /\ \E out \in InsertOutcomes(merchant_aliases, data) :
                     /\ alias_out' = Some(out)
                     /\ IF out.ok
                        THEN /\ merchant_aliases' = Append(merchant_aliases, data)
                             /\ alias_migrated' = alias_migrated + 1
                             /\ UNCHANGED <<alias_errors, alias_printed>>
                        ELSE IF NotDuplicate(out.msg)
                        THEN /\ alias_errors' = alias_errors + 1
                             /\ alias_printed' = alias_printed + Shown(alias_errors + 1)
                             /\ UNCHANGED <<merchant_aliases, alias_migrated>>
                        ELSE /\ alias_migrated' = alias_migrated + 1
                             /\ UNCHANGED <<merchant_aliases, alias_errors, alias_printed>>

\* the body of the for loop, lines 167-192
AliasBody(row) ==
    LET data == BuildAlias(row)
    IN /\ alias_row' = Some(row)
       /\ alias_i' = alias_i + 1
       /\ IF data.raw_merchant = <<>> \/ data.std_merchant = <<>>
          THEN UNCHANGED <<merchant_aliases, alias_migrated, alias_errors,
                           alias_printed, alias_calls, alias_out>>
          ELSE /\ alias_calls' = alias_calls + 1
               /\ \E out \in InsertOutcomes(merchant_aliases, data) :
                     /\ alias_out' = Some(out)
                     /\ IF out.ok
                        THEN /\ merchant_aliases' = Append(merchant_aliases, data)
                             /\ alias_migrated' = alias_migrated + 1
                             /\ UNCHANGED <<alias_errors, alias_printed>>
                        ELSE IF NotDuplicate(out.msg)
                        THEN /\ alias_errors' = alias_errors + 1
                             /\ alias_printed' = alias_printed + Shown(alias_errors + 1)
                             /\ UNCHANGED <<merchant_aliases, alias_migrated>>
                        ELSE UNCHANGED <<merchant_aliases, alias_migrated, alias_errors,
                                         alias_printed>>

AliasRow ==
    /\ alias_pc = "loop"
    /\ IF alias_i < Len(alias_records)
       THEN /\ AliasBody(alias_records[alias_i + 1])
            /\ UNCHANGED alias_records
       ELSE /\ alias_runs = 1
            /\ alias_i < cfg.aliasRows
            /\ \E row \in AliasRowsAt(alias_i + 1) :
                  /\ AliasBody(row)
                  /\ alias_records' = Append(alias_records, row)
    /\ UNCHANGED <<alias_pc, alias_runs, alias_prev, storeVars, syncVars, txnVars,
                   ruleVars, auxVars, cfg>>

\* lines 194-197
AliasEnd ==
    /\ alias_pc = "loop"
    /\ alias_i = Len(alias_records)
    /\ alias_pc' = "done"
    /\ UNCHANGED <<merchant_aliases, alias_records, alias_runs, alias_i, alias_row,
                   alias_migrated, alias_errors, alias_printed, alias_calls, alias_prev,
                   alias_out, storeVars, syncVars, txnVars, ruleVars, auxVars, cfg>>

(***************************************************************************)
(* migrate_sheets_to_supabase.py: main                                     *)
(***************************************************************************)
\* lines 305-310
required == <<"GOOGLE_SERVICE_ACCOUNT_JSON", "GOOGLE_SHEET_ID", "SUPABASE_URL",
              "SUPABASE_SERVICE_ROLE_KEY">>

\* the test of line 311 with "v not in os.environ" for "not os.environ.get(v)"
NotInEnviron(v) == environ[v] = None

\* not os.environ.get(v): the variable is unset or empty
NotSet(v) == environ[v] = None \/ environ[v] = Some("")

\* line 311: missing = [v for v in required if not os.environ.get(v)]
Missing == SelectSeq(required, NotSet)

\* lines 305-314: the required variables are checked; main returns when one
\* is missing
MainCheck ==
    /\ main_pc = "idle"
    /\ main_missing' = Missing
    /\ main_pc' = IF Missing # <<>> THEN "returned" ELSE "clients"
    /\ UNCHANGED <<environ, main_io, count_arg, count_out>>
    /\ UNCHANGED <<storeVars, syncVars, txnVars, ruleVars, aliasVars, cfg>>

\* lines 316-321: the two clients are constructed; either construction may
\* raise, which ends main
MainClients ==
    /\ main_pc = "clients"
    /\ \E sheets_ok, supabase_ok \in BOOLEAN :
          IF ~sheets_ok
          THEN /\ main_pc' = "crashed"
               /\ UNCHANGED main_io
          ELSE IF ~supabase_ok
          THEN /\ main_pc' = "crashed"
               /\ main_io' = Append(main_io, "get_sheets_client")
          ELSE /\ main_pc' = "run"
               /\ main_io' = main_io \o <<"get_sheets_client", "get_supabase_client">>
    /\ UNCHANGED <<environ, main_missing, count_arg, count_out>>
    /\ UNCHANGED <<storeVars, syncVars, txnVars, ruleVars, aliasVars, cfg>>

\* line 324
MainRules ==
    /\ main_pc = "run"
    /\ (RulesStart \/ RulesRow \/ RulesEnd)

\* line 325, once migrate_merchant_rules has returned
MainAliases ==
    /\ main_pc = "run"
    /\ rules_pc = "done"
    /\ (AliasStart \/ AliasRow \/ AliasEnd)

\* line 326, once migrate_merchant_aliases has returned
MainTransactions ==
    /\ main_pc = "run"
    /\ alias_pc = "done"
    /\ (TxnStart \/ TxnRow \/ TxnEnd)

\* lines 329-331: verify_migration reads the three tables; main returns
MainVerify ==
    /\ main_pc = "run"
    /\ txn_pc = "done"
    /\ main_io' = Append(main_io, "verify_migration")
    /\ main_pc' = "returned"
    /\ UNCHANGED <<environ, main_missing, count_arg, count_out>>
    /\ UNCHANGED <<storeVars, syncVars, txnVars, ruleVars, aliasVars, cfg>>

(***************************************************************************)
(* A call of parse_txn_count.                                              *)
(***************************************************************************)
ParseCount ==
    /\ count_out = None
    /\ count_out' = Some(parse_txn_count(count_arg))
    /\ UNCHANGED <<count_arg, mainVars>>
    /\ UNCHANGED <<storeVars, syncVars, txnVars, ruleVars, aliasVars, cfg>>

(***************************************************************************)
(* The rows of the sheets the model draws from.                            *)
(***************************************************************************)
TxtIsoDate == <<"2", "0", "2", "4", "-", "0", "1", "-", "0", "5">>
TxtUsDate == <<"0", "3", "/", "1", "4", "/", "2", "0", "2", "4">>
TxtGarbage == <<"n", "/", "a">>
TxtA == <<"A">>
TxtAPadded == <<" ", "A", " ">>
TxtB == <<"B">>
TxtSpaces == <<" ", "\t">>
TxtRawA == <<"a", "*", "1">>
Txt100Plus == <<"1", "0", "0", "+">>

\* "All Transactions": a row whose other cells are blank, a filled row, and
\* rows without a date
DatedRow == [Date |-> TxtIsoDate, Status |-> "", Entity |-> ""]
FilledRow ==
    [Date |-> TxtUsDate, Status |-> "OK", Entity |-> "Origin"]
    @@ ("QB Account" :> "6000") @@ ("Raw Merchant" :> TxtRawA)
    @@ ("Std Merchant" :> TxtA)
BlankDateRow == [Date |-> <<>>, Status |-> "OK", Entity |-> "Origin"]
GarbageDateRow == [Date |-> TxtGarbage, Status |-> "OK", Entity |-> "Origin"]

\* "Merchant Rules"
RuleA == [Merchant |-> TxtA] @@ ("Current Entity" :> "Origin")
         @@ ("Txn Count" :> TextCell(Txt100Plus))
RuleAPadded == [Merchant |-> TxtAPadded] @@ ("Current Entity" :> "")
               @@ ("Txn Count" :> IntCell(42))
RuleB == [Merchant |-> TxtB]
RuleBlank == [Merchant |-> <<>>] @@ ("Current Entity" :> "Origin")
RuleSpaces == [Merchant |-> TxtSpaces] @@ ("Current Entity" :> "Origin")

\* "Merchant Alias"
AliasRowOf(raw, std) == ("Raw Merchant" :> raw) @@ ("Std Merchant" :> std)
AliasA == AliasRowOf(TxtRawA, TxtA)
AliasAPadded == AliasRowOf(TxtRawA, TxtAPadded)
AliasB == AliasRowOf(TxtRawA, TxtB)
AliasNoRaw == AliasRowOf(TxtSpaces, TxtA)
AliasNoStd == AliasRowOf(TxtRawA, <<>>)

(***************************************************************************)
(* The environment of the sync: the processes that write the table         *)
(* besides the two scripts.                                                *)
(***************************************************************************)
\* what a computed-field update writes
DownstreamUpdates ==
    {[status |-> Some("OK"), qb_account |-> Some("6000")],
     [status |-> None, qb_account |-> None]}

\* a downstream process updates a record's computed fields and clears
\* sheets_synced_at
Downstream(id) ==
    /\ cfg.downstream
    /\ id \in DOMAIN transactions
    /\ \E u \in DownstreamUpdates :
          transactions' = [transactions EXCEPT
                              ![id].status = u.status,
                              ![id].qb_account = u.qb_account,
                              ![id].sheets_synced_at = None]
    /\ cleared' = cleared \cup {id}
    /\ UNCHANGED <<sheet, clock, syncVars, migVars, cfg>>

\* a record that did not come from the sheet: no originating row
ManualInsert ==
    /\ Len(transactions) + Len(batch) < cfg.txnCap
    /\ transactions' = Append(transactions,
           [date |-> TxtIsoDate, raw_merchant |-> None, merchant |-> None,
            entity |-> NEEDS_REVIEW, qb_account |-> None, status |-> Some("OK"),
            sheets_row_id |-> None, sheets_synced_at |-> None])
    /\ UNCHANGED <<sheet, clock, cleared, syncVars, migVars, cfg>>

(***************************************************************************)
(* Specifications.                                                         *)
(***************************************************************************)
vars == <<storeVars, syncVars, migVars, cfg>>

InitSync ==
    /\ pc = [p \in Procs |-> "idle"]
    /\ result = [p \in Procs |-> <<>>]
    /\ batch_updates = [p \in Procs |-> <<>>]
    /\ synced_ids = [p \in Procs |-> <<>>]
    /\ applied = [p \in Procs |-> {}]
    /\ returned = [p \in Procs |-> None]

InitTxn ==
    /\ txn_pc = "idle"
    /\ txn_runs = 0
    /\ txn_i = 0
    /\ txn_row = None
    /\ batch = <<>>
    /\ txn_migrated = 0
    /\ txn_errors = 0
    /\ txn_printed = 0
    /\ txn_calls = <<>>

InitRules ==
    /\ merchant_rules = <<>>
    /\ rules_records = <<>>
    /\ rules_pc = "idle"
    /\ rules_runs = 0
    /\ rules_i = 0
    /\ rules_row = None
    /\ rules_migrated = 0
    /\ rules_errors = 0
    /\ rules_printed = 0
    /\ rules_calls = 0
    /\ rules_prev = [rows |-> 0, errors |-> 0]

InitAlias ==
    /\ merchant_aliases = <<>>
    /\ alias_records = <<>>
    /\ alias_pc = "idle"
    /\ alias_runs = 0
    /\ alias_i = 0
    /\ alias_row = None
    /\ alias_migrated = 0
    /\ alias_errors = 0
    /\ alias_printed = 0
    /\ alias_calls = 0
    /\ alias_prev = [table |-> <<>>, errors |-> 0]
    /\ alias_out = None

InitMain ==
    /\ environ = [v \in Range(required) |-> Some("set")]
    /\ main_pc = "idle"
    /\ main_io = <<>>
    /\ main_missing = <<>>

InitCount ==
    /\ count_arg = IntCell(0)
    /\ count_out = None

InitStore ==
    /\ transactions = <<>>
    /\ sheet = <<>>
    /\ clock = 1
    /\ cleared = {}

InitProgram ==
    InitStore /\ InitSync /\ InitTxn /\ InitRules /\ InitAlias /\ InitMain /\ InitCount

\* the parts of cfg of a specification that runs no such migration
NoTxn == [txnRows |-> 0, txnVaried |-> 0, txnKinds |-> {}, txnRest |-> {},
          txnRuns |-> 0, txnCap |-> 0]
NoRules == [ruleRows |-> 0, ruleVaried |-> 0, ruleKinds |-> {}, ruleRest |-> {},
            ruleRuns |-> 0]
NoAlias == [aliasRows |-> 0, aliasVaried |-> 0, aliasKinds |-> {}, aliasRest |-> {},
            aliasRuns |-> 0, aliasFailures |-> {}]
NoEnv == [downstream |-> FALSE, sync |-> "never"]

\* the migrator of a short sheet
ShortTxn == [txnRows |-> MaxTxns, txnVaried |-> MaxTxns,
             txnKinds |-> {DatedRow, BlankDateRow}, txnRest |-> {DatedRow},
             txnRuns |-> 1, txnCap |-> MaxTxns]

(***************************************************************************)
(* Spec: one sync process, run again and again, beside the migrator of a   *)
(* short sheet, a downstream process and hand-made records.                *)
(***************************************************************************)
Init ==
    /\ InitProgram
    /\ cfg = ShortTxn @@ NoRules @@ NoAlias
             @@ [downstream |-> TRUE, sync |-> "always"]

Next ==
    \/ TxnStart
    \/ TxnRow
    \/ TxnEnd
    \/ ManualInsert
    \/ \E id \in DOMAIN transactions : Downstream(id)
    \/ SyncSelect(1)
    \/ SyncBatchUpdate(1)
    \/ SyncStamp(1)

Spec == Init /\ [][Next]_vars

(***************************************************************************)
(* SpecBacklog: the sync run again and again on a backlog of Dirty records *)
(* around the select's limit, nothing else writing the table.              *)
(***************************************************************************)
\* a migrated record after a computed-field update
BacklogRecord(k) ==
    [date |-> TxtIsoDate, raw_merchant |-> None, merchant |-> None,
     entity |-> NEEDS_REVIEW, qb_account |-> Some("6000"), status |-> Some("OK"),
     sheets_row_id |-> Some(k + 1), sheets_synced_at |-> None]

InitBacklog ==
    /\ InitSync /\ InitTxn /\ InitRules /\ InitAlias /\ InitMain /\ InitCount
    /\ \E n \in (SYNC_LIMIT - 1)..(SYNC_LIMIT + MaxOver) :
          /\ transactions = [k \in 1..n |-> BacklogRecord(k)]
          /\ cleared = 1..n
    /\ sheet = <<>>
    /\ clock = 1
    /\ cfg = NoTxn @@ NoRules @@ NoAlias @@ [downstream |-> FALSE, sync |-> "always"]

NextBacklog ==
    \/ SyncSelect(1)
    \/ SyncBatchUpdate(1)
    \/ SyncStamp(1)

SpecBacklog == InitBacklog /\ [][NextBacklog]_vars

(***************************************************************************)
(* SpecMigrate: one run of one of the three migrations into an empty       *)
(* database, and the sync afterwards.                                      *)
(***************************************************************************)
CfgRules ==
    NoTxn @@ NoAlias @@ NoEnv
    @@ [ruleRows |-> MaxSheetRows, ruleVaried |-> MaxSheetVaried,
        ruleKinds |-> {RuleA, RuleB, RuleBlank, RuleSpaces}, ruleRest |-> {RuleA},
        ruleRuns |-> 1]

CfgAlias ==
    NoTxn @@ NoRules @@ NoEnv
    @@ [aliasRows |-> MaxSheetRows, aliasVaried |-> MaxSheetVaried,
        aliasKinds |-> {AliasA, AliasB, AliasNoRaw, AliasNoStd}, aliasRest |-> {AliasA},
        aliasRuns |-> 1, aliasFailures |-> {MsgTimeout, MsgConflict}]

CfgTxnLong ==
    NoRules @@ NoAlias @@ NoEnv
    @@ [txnRows |-> MaxTxnRows, txnVaried |-> MaxTxnVaried,
        txnKinds |-> {DatedRow, BlankDateRow, GarbageDateRow}, txnRest |-> {DatedRow},
        txnRuns |-> 1, txnCap |-> MaxTxnRows]

CfgTxnShort ==
    ShortTxn @@ NoRules @@ NoAlias
    @@ [downstream |-> TRUE, sync |-> "after"]

InitMigrate ==
    /\ InitProgram
    /\ cfg \in {CfgRules, CfgAlias, CfgTxnLong, CfgTxnShort}

NextMigrate ==
    \/ RulesStart
    \/ RulesRow
    \/ RulesEnd
    \/ AliasStart
    \/ AliasRow
    \/ AliasEnd
    \/ TxnStart
    \/ TxnRow
    \/ TxnEnd
    \/ \E id \in DOMAIN transactions : Downstream(id)
    \/ SyncSelect(1)
    \/ SyncBatchUpdate(1)
    \/ SyncStamp(1)

SpecMigrate == InitMigrate /\ [][NextMigrate]_vars

(***************************************************************************)
(* SpecTwice: migrate_merchant_rules or migrate_merchant_aliases run       *)
(* twice on the same sheet.                                                *)
(***************************************************************************)
CfgRulesTwice ==
    NoTxn @@ NoAlias @@ NoEnv
    @@ [ruleRows |-> MaxReplayRows, ruleVaried |-> MaxReplayRows,
        ruleKinds |-> {RuleA, RuleAPadded, RuleB, RuleBlank}, ruleRest |-> {RuleA},
        ruleRuns |-> 2]

CfgAliasTwice ==
    NoTxn @@ NoRules @@ NoEnv
    @@ [aliasRows |-> MaxReplayRows, aliasVaried |-> MaxReplayRows,
        aliasKinds |-> {AliasA, AliasAPadded, AliasB, AliasNoStd}, aliasRest |-> {AliasA},
        aliasRuns |-> 2, aliasFailures |-> {MsgTimeout}]

InitTwice ==
    /\ InitProgram
    /\ cfg \in {CfgRulesTwice, CfgAliasTwice}

NextTwice ==
    \/ RulesStart
    \/ RulesRow
    \/ RulesEnd
    \/ AliasStart
    \/ AliasRow
    \/ AliasEnd

SpecTwice == InitTwice /\ [][NextTwice]_vars

(***************************************************************************)
(* SpecMain: main, started in any environment: each required variable is   *)
(* unset, empty or set.                                                    *)
(***************************************************************************)
CfgMain ==
    NoEnv
    @@ [ruleRows |-> MaxMainRows, ruleVaried |-> MaxMainRows,
        ruleKinds |-> {RuleA, RuleBlank}, ruleRest |-> {RuleA}, ruleRuns |-> 1]
    @@ [aliasRows |-> MaxMainRows, aliasVaried |-> MaxMainRows,
        aliasKinds |-> {AliasA, AliasNoStd}, aliasRest |-> {AliasA}, aliasRuns |-> 1,
        aliasFailures |-> {MsgTimeout}]
    @@ [txnRows |-> MaxMainRows, txnVaried |-> MaxMainRows,
        txnKinds |-> {DatedRow, BlankDateRow}, txnRest |-> {DatedRow},
        txnRuns |-> 1, txnCap |-> MaxMainRows]

InitEnviron ==
    /\ environ \in [Range(required) -> {None, Some(""), Some("set")}]
    /\ main_pc = "idle"
    /\ main_io = <<>>
    /\ main_missing = <<>>

InitMainRun ==
    /\ InitStore /\ InitSync /\ InitTxn /\ InitRules /\ InitAlias /\ InitCount
    /\ InitEnviron
    /\ cfg = CfgMain

NextMain ==
    \/ MainCheck
    \/ MainClients
    \/ MainRules
    \/ MainAliases
    \/ MainTransactions
    \/ MainVerify

SpecMain == InitMainRun /\ [][NextMain]_vars

(***************************************************************************)
(* SpecParse: parse_txn_count called on a number or on a text.            *)
(***************************************************************************)
CountChars == {"0", "1", "2", "4", "+", "N", "/", "A"}

CountInts == {-3, 0, 7, 42}

CountTexts == UNION {[1..n -> CountChars] : n \in 0..MaxCountLen}

InitParse ==
    /\ InitStore /\ InitSync /\ InitTxn /\ InitRules /\ InitAlias /\ InitMain
    /\ \/ \E n \in CountInts : count_arg = IntCell(n)
       \/ \E t \in CountTexts : count_arg = TextCell(t)
    /\ count_out = None
    /\ cfg = NoTxn @@ NoRules @@ NoAlias @@ NoEnv

NextParse == ParseCount

SpecParse == InitParse /\ [][NextParse]_vars

(***************************************************************************)
(* SpecOverlap: two runs of the sync at once, each run again and again,    *)
(* nothing else writing the table.                                         *)
(***************************************************************************)
\* a record of the table: Dirty or Synced, its computed fields set or null
OverlapRecords(k) ==
    {[BacklogRecord(k) EXCEPT !.status = u.status, !.qb_account = u.qb_account,
                              !.sheets_synced_at = at] :
        u \in DownstreamUpdates, at \in {None, Some(0)}}

InitOverlap ==
    /\ InitSync /\ InitTxn /\ InitRules /\ InitAlias /\ InitMain /\ InitCount
    /\ \E n \in 1..MaxOverlap :
          /\ transactions \in [1..n -> UNION {OverlapRecords(k) : k \in 1..n}]
          /\ \A k \in 1..n : transactions[k] \in OverlapRecords(k)
    /\ cleared = {}
    /\ sheet = <<>>
    /\ clock = 1
    /\ cfg = NoTxn @@ NoRules @@ NoAlias @@ [downstream |-> FALSE, sync |-> "always"]

NextOverlap ==
    \/ SyncSelect(1)
    \/ SyncBatchUpdate(1)
    \/ SyncStamp(1)
    \/ SyncSelect(2)
    \/ SyncBatchUpdate(2)
    \/ SyncStamp(2)

SpecOverlap == InitOverlap /\ [][NextOverlap]_vars

(***************************************************************************)
(* SpecDrain: cron runs the sync again and again on a backlog of any size  *)
(* up to just over the limit; every write and every update succeeds and    *)
(* nothing else writes the table.                                          *)
(***************************************************************************)
InitDrain ==
    /\ InitSync /\ InitTxn /\ InitRules /\ InitAlias /\ InitMain /\ InitCount
    /\ \E n \in 0..(SYNC_LIMIT + MaxOver) :
          /\ transactions = [k \in 1..n |-> BacklogRecord(k)]
          /\ cleared = 1..n
    /\ sheet = <<>>
    /\ clock = 1
    /\ cfg = NoTxn @@ NoRules @@ NoAlias @@ [downstream |-> FALSE, sync |-> "always"]

\* line 92, the request succeeding
DrainWrite ==
    /\ SyncBatchUpdate(1)
    /\ pc'[1] = "written"

\* lines 98-100, the request succeeding
DrainStamp ==
    /\ SyncStamp(1)
    /\ pc'[1] = "done"

NextDrain ==
    \/ SyncSelect(1)
    \/ DrainWrite
    \/ DrainStamp

\* cron starts the next run, and a started run goes on to its end
SpecDrain == InitDrain /\ [][NextDrain]_vars /\ WF_vars(NextDrain)

(***************************************************************************)
(* SpecBuild: migrate_transactions on rows whose merchant, entity and      *)
(* status cells are each absent, empty or filled.                          *)
(***************************************************************************)
\* a column of a row: absent from the record, or holding one of vals
Column(key, vals) == {[x \in {} |-> x]} \cup {key :> v : v \in vals}

BuildRows ==
    {[Date |-> d] @@ raw @@ std @@ entity @@ status :
        d \in {TxtIsoDate, <<>>},
        raw \in Column("Raw Merchant", {<<>>, TxtRawA}),
        std \in Column("Std Merchant", {<<>>, TxtA}),
        entity \in Column("Entity", {"", "Origin"}),
        status \in Column("Status", {"", "OK"})}

CfgBuild ==
    NoRules @@ NoAlias @@ NoEnv
    @@ [txnRows |-> MaxBuildRows, txnVaried |-> MaxBuildRows,
        txnKinds |-> BuildRows, txnRest |-> {DatedRow},
        txnRuns |-> 1, txnCap |-> MaxBuildRows]

InitBuild ==
    /\ InitProgram
    /\ cfg = CfgBuild

NextBuild ==
    \/ TxnStart
    \/ TxnRow
    \/ TxnEnd

SpecBuild == InitBuild /\ [][NextBuild]_vars

(***************************************************************************)
(* The claims.                                                             *)
(***************************************************************************)
\* the ids of the rows of a result set
Ids(data) == {data[k].id : k \in DOMAIN data}

\* the cells of the sheet a step changed
ChangedCells == {a \in DOMAIN sheet' : a \notin DOMAIN sheet \/ sheet'[a] # sheet[a]}

\* the records of the table a step changed
ChangedRecords == {id \in DOMAIN transactions' :
                      id \notin DOMAIN transactions \/ transactions'[id] # transactions[id]}

\* whether the write of process p covered the sheet row of record id
Covered(p, id) ==
    /\ Cell("A", transactions[id].sheets_row_id) \in applied[p]
    /\ Cell("F", transactions[id].sheets_row_id) \in applied[p]

\* C1: the select of a run returns only records whose sheets_synced_at is
\* null and whose sheets_row_id is non-null, with the values the table holds;
\* the run writes only cells of the rows of the selected records and stamps
\* only the selected records.  A record with a null sheets_row_id or a
\* non-null sheets_synced_at is so never selected, written or stamped.
C1_SelectsOnlyDirty ==
    [][\A p \in Procs :
          /\ (pc[p] \in {"idle", "done", "crashed"} /\ pc'[p] = "built") =>
                \A k \in DOMAIN result'[p] :
                   LET id == result'[p][k].id
                   IN /\ id \in DOMAIN transactions
                      /\ transactions[id].sheets_synced_at = None
                      /\ transactions[id].sheets_row_id # None
                      /\ result'[p][k].sheets_row_id = transactions[id].sheets_row_id
          /\ (pc[p] = "built" /\ pc'[p] = "written") =>
                \A a \in ChangedCells :
                   \E k \in DOMAIN result[p] : a.row = result[p][k].sheets_row_id
          /\ (pc[p] = "written" /\ pc'[p] = "done") =>
                ChangedRecords \subseteq Ids(result[p])
      ]_vars

\* a run stamped one record while a record without a sheet row, never
\* synced, sits in the table
C1_Witness ==
    /\ pc[1] = "done"
    /\ returned[1] = Some(1)
    /\ \E id \in DOMAIN transactions :
          /\ transactions[id].sheets_row_id = None
          /\ transactions[id].sheets_synced_at = None
    /\ \E id \in Ids(result[1]) : transactions[id].sheets_synced_at # None

\* C2: when the batched sheet write fails the run ends there: it changes
\* neither the table nor the sheet, and stamps nothing afterwards; the
\* records it had selected are still Dirty when the next run selects, and
\* that run selects all of them again whenever at most SYNC_LIMIT records
\* are Dirty.
C2_FailedWriteLeavesDirty ==
    [][/\ (pc[1] = "built" /\ pc'[1] # "built" /\ applied'[1] = {}) =>
             /\ pc'[1] = "crashed"
             /\ transactions' = transactions
             /\ sheet' = sheet
       /\ (applied[1] = {} /\ applied'[1] = {}) => transactions' = transactions
       /\ (pc[1] = "crashed" /\ applied[1] = {} /\ pc'[1] \in {"built", "done"}) =>
             /\ Ids(result[1]) \subseteq Dirty(transactions)
             /\ Cardinality(Dirty(transactions)) <= SYNC_LIMIT =>
                   Ids(result[1]) \subseteq Ids(result'[1])
      ]_vars

\* the write of a run that had selected SYNC_LIMIT records failed, and no
\* more than SYNC_LIMIT records are Dirty
C2_Witness ==
    /\ pc[1] = "crashed"
    /\ applied[1] = {}
    /\ Len(result[1]) = SYNC_LIMIT
    /\ Cardinality(Dirty(transactions)) = SYNC_LIMIT
    /\ Ids(result[1]) = Dirty(transactions)

\* C2 as the specification states it: after a failed write the next run
\* selects the same records again, however many records are Dirty
C2_Original ==
    [][(pc[1] = "crashed" /\ applied[1] = {} /\ pc'[1] \in {"built", "done"}) =>
          Ids(result[1]) \subseteq Ids(result'[1])
      ]_vars

\* C3: the stamping of a run leaves every record of synced_ids with a
\* non-null sheets_synced_at; the records it stamps are exactly the records
\* whose rows its write covered, which are the selected ones; and the next
\* run selects none of them that still holds its stamp.
C3_StampedIsWritten ==
    [][\A p \in Procs :
          /\ (pc[p] = "written" /\ pc'[p] = "done") =>
                LET stamped == {id \in DOMAIN transactions :
                                   transactions'[id].sheets_synced_at
                                      # transactions[id].sheets_synced_at}
                    written == {id \in Ids(result[p]) : Covered(p, id)}
                IN /\ \A id \in Range(synced_ids[p]) :
                         transactions'[id].sheets_synced_at # None
                   /\ stamped = written
                   /\ written = Ids(result[p])
                   /\ returned'[p] = Some(Cardinality(written))
          /\ (pc[p] = "done" /\ pc'[p] = "built") =>
                \A id \in Range(synced_ids[p]) :
                   transactions[id].sheets_synced_at # None => id \notin Ids(result'[p])
      ]_vars

\* a run wrote and stamped two records
C3_Witness ==
    /\ pc[1] = "done"
    /\ returned[1] = Some(2)
    /\ Len(synced_ids[1]) = 2
    /\ \A id \in Range(synced_ids[1]) :
          /\ transactions[id].sheets_synced_at # None
          /\ Covered(1, id)

\* C4: a record whose sheets_synced_at is null gets a non-null one only in
\* the stamping step of a run whose sheet write succeeded and covered the
\* record's row; and a step of the migrator changes no record the table
\* already holds.
C4_OnlyStampAfterWrite ==
    [][/\ \A id \in DOMAIN transactions :
             (transactions[id].sheets_synced_at = None
                /\ transactions'[id].sheets_synced_at # None) =>
                \E p \in Procs :
                   /\ pc[p] = "written"
                   /\ pc'[p] = "done"
                   /\ id \in Range(synced_ids[p])
                   /\ Covered(p, id)
       /\ txnVars' # txnVars =>
             \A id \in DOMAIN transactions :
                /\ id \in DOMAIN transactions'
                /\ transactions'[id] = transactions[id]
      ]_vars

\* a migrated record, cleared by the downstream process, was written and
\* stamped by a run of the sync
C4_Witness ==
    /\ txn_pc = "done"
    /\ txn_migrated >= 1
    /\ \E id \in cleared :
          /\ transactions[id].sheets_synced_at # None
          /\ id \in Range(synced_ids[1])
          /\ Covered(1, id)
          /\ sheet[Cell("A", transactions[id].sheets_row_id)] = OrEmpty(transactions[id].status)

\* the number of rows of the first n insert calls whose outcome is okv
RECURSIVE RowsIn(_, _, _)
RowsIn(calls, okv, n) ==
    IF n = 0 THEN 0
    ELSE RowsIn(calls, okv, n - 1)
         + (IF calls[n].ok \in okv THEN Len(calls[n].rows) ELSE 0)

\* the sheet rows of the first n insert calls whose outcome is okv, in order
RECURSIVE Flat(_, _, _)
Flat(calls, okv, n) ==
    IF n = 0 THEN <<>>
    ELSE Flat(calls, okv, n - 1) \o (IF calls[n].ok \in okv THEN calls[n].rows ELSE <<>>)

\* the sheet rows that entered a batch so far, in the order they entered
Batched ==
    Flat(txn_calls, BOOLEAN, Len(txn_calls))
    \o (IF txn_pc = "loop" THEN RowIds(batch) ELSE <<>>)

\* the date texts of the model's sheets that are dates
IsDateText(t) == t \in {TxtIsoDate, TxtUsDate}

\* a blank or whitespace-only text
Blank(t) == \A k \in DOMAIN t : t[k] \in {" ", "\t"}

FailedCalls == Cardinality({k \in DOMAIN txn_calls : ~txn_calls[k].ok})

\* C5: every Transaction and every MerchantRule the migrator persists, or
\* holds in its buffer, has a non-null sheets_synced_at; and as long as no
\* downstream process has cleared a record, a run of the sync after the
\* migration selects nothing, writes nothing to the sheet, stamps nothing
\* and returns 0.
C5_MigratedIsSynced ==
    /\ \A k \in DOMAIN merchant_rules : merchant_rules[k].sheets_synced_at # None
    /\ \A k \in DOMAIN batch : batch[k].sheets_synced_at # None
    /\ \A id \in DOMAIN transactions :
          id \notin cleared => transactions[id].sheets_synced_at # None
    /\ cleared = {} =>
          /\ pc[1] \in {"idle", "done"}
          /\ result[1] = <<>>
          /\ applied[1] = {}
          /\ sheet = <<>>
          /\ returned[1] \in {None, Some(0)}

\* the sync ran after a migration that persisted two records, none of them
\* cleared since, and returned 0
C5_Witness ==
    /\ txn_pc = "done"
    /\ txn_migrated = 2
    /\ Len(transactions) = 2
    /\ cleared = {}
    /\ pc[1] = "done"
    /\ returned[1] = Some(0)

\* C6: the rows with a date enter the batches in sheet order, each once, and
\* the rows without one enter none; every insert call but the last of the
\* run carries exactly 100 rows and the last one, the remainder, at most
\* 100; a call that fails adds its rows to errors and persists none of them,
\* a call that succeeds adds them to migrated and persists them; so at the
\* end migrated + errors is the number of rows with a date.
C6_Batches ==
    /\ [](LET b == Batched
              n == Len(txn_calls)
          IN /\ \A k \in DOMAIN txn_calls :
                   /\ Len(txn_calls[k].rows) \in 1..100
                   /\ (k < n \/ txn_pc = "loop") => Len(txn_calls[k].rows) = 100
             /\ txn_pc = "loop" => Len(batch) < 100
             /\ \A j \in 1..(Len(b) - 1) : b[j] < b[j + 1]
             /\ txn_migrated = RowsIn(txn_calls, {TRUE}, n)
             /\ txn_errors = RowsIn(txn_calls, {FALSE}, n)
             /\ RowIds(transactions) = Flat(txn_calls, {TRUE}, n)
             /\ txn_pc = "done" => txn_migrated + txn_errors = Len(b))
    /\ [][/\ txn_i' = txn_i + 1 =>
                IF IsDateText(Get(txn_row'[1], "Date", <<>>))
                THEN Batched' = Append(Batched, txn_i + 2)
                ELSE Batched' = Batched
          /\ (txn_pc = "loop" /\ txn_pc' = "done") => Batched' = Batched
         ]_vars

\* a sheet of 250 rows with a date, the second batch failed, the others
\* succeeded: 150 migrated, 100 errors
C6_Witness ==
    /\ txn_pc = "done"
    /\ txn_i = 250
    /\ Len(Batched) = 250
    /\ Len(txn_calls) = 3
    /\ txn_calls[1].ok /\ ~txn_calls[2].ok /\ txn_calls[3].ok
    /\ Len(txn_calls[3].rows) = 50
    /\ txn_migrated = 150
    /\ txn_errors = 100
    /\ Len(transactions) = 150

\* C7: an iteration over a row that lacks its identity (a merchant rule
\* with a blank or whitespace-only Merchant, an alias with a blank Raw
\* Merchant or Std Merchant, a transaction whose Date is blank or no date)
\* issues no persistence call, changes no table, no buffer and no counter,
\* and the loop goes on.
C7_SkippedRowsTouchNothing ==
    [][/\ rules_i' = rules_i + 1 =>
             (Blank(Get(rules_row'[1], "Merchant", <<>>)) =>
                 /\ UNCHANGED <<merchant_rules, rules_migrated, rules_errors,
                                rules_printed, rules_calls>>
                 /\ rules_pc' = "loop")
       /\ alias_i' = alias_i + 1 =>
             ((Blank(Get(alias_row'[1], "Raw Merchant", <<>>))
                 \/ Blank(Get(alias_row'[1], "Std Merchant", <<>>))) =>
                 /\ UNCHANGED <<merchant_aliases, alias_migrated, alias_errors,
                                alias_printed, alias_calls>>
                 /\ alias_pc' = "loop")
       /\ txn_i' = txn_i + 1 =>
             (~IsDateText(Get(txn_row'[1], "Date", <<>>)) =>
                 /\ UNCHANGED <<transactions, batch, txn_migrated, txn_errors,
                                txn_printed, txn_calls>>
                 /\ txn_pc' = "loop")
      ]_vars

\* the rules loop has just passed a whitespace-only Merchant after one rule
\* that it persisted
C7_Witness ==
    /\ rules_pc = "loop"
    /\ rules_i = 2
    /\ rules_row = Some(RuleSpaces)
    /\ rules_calls = 1
    /\ rules_migrated = 1
    /\ Len(merchant_rules) = 1

SaysDuplicate(msg) == msg \in {MsgDuplicateKey}

RuleName(row) == Strip(Get(row, "Merchant", <<>>))

\* C12: merchant_rules never holds two records of one merchant name; and
\* in a run without persistence failures, for every name among the rows
\* processed so far the table holds the record built from the last of those
\* rows with that name, its sheets_row_id included.
C12_LastWriteWins ==
    /\ \A a, b \in DOMAIN merchant_rules :
          merchant_rules[a].merchant = merchant_rules[b].merchant => a = b
    /\ (rules_pc \in {"loop", "done"} /\ rules_errors = 0) =>
          \A k \in 1..rules_i :
             LET name == RuleName(rules_records[k])
                 same == {j \in 1..rules_i : RuleName(rules_records[j]) = name}
                 last == CHOOSE j \in same : \A h \in same : h <= j
             IN name # <<>> =>
                   \E r \in DOMAIN merchant_rules :
                      /\ merchant_rules[r] = BuildRule(rules_records[last], last + 1)
                      /\ merchant_rules[r].merchant = name
                      /\ merchant_rules[r].sheets_row_id = Some(last + 1)

\* a first run over the rules A, B and A again (padded, another count): two
\* records, that of A built from sheet row 4
C12_Witness ==
    /\ rules_runs = 1
    /\ rules_pc = "done"
    /\ rules_errors = 0
    /\ rules_records = <<RuleA, RuleB, RuleAPadded>>
    /\ Len(merchant_rules) = 2
    /\ merchant_rules[1].merchant = TxtA
    /\ merchant_rules[1].sheets_row_id = Some(4)
    /\ merchant_rules[1].txn_count = 42
    /\ merchant_rules[1].entity_default = NEEDS_REVIEW

\* the record an iteration of migrate_transactions has just built, when it
\* is held in the buffer or was persisted
NewTxn ==
    IF Len(batch') > Len(batch) THEN Some(batch'[Len(batch')])
    ELSE IF Len(transactions') > Len(transactions)
    THEN Some(transactions'[Len(transactions')])
    ELSE None

\* C13: a record of merchant_rules carries the sheet row of a row of its
\* merchant: its sheets_row_id is that row's position among all data rows
\* (from 0) plus 2, whatever rows before it were skipped or failed; the
\* record an iteration of migrate_transactions builds carries the position
\* of its row plus 2; and the writes a sync run queues for a selected record
\* address cells A and F of the record's own sheets_row_id.
C13_RowIdIsSheetRow ==
    /\ [](/\ \A r \in DOMAIN merchant_rules :
                LET n == merchant_rules[r].sheets_row_id[1]
                IN /\ (n - 1) \in 1..Len(rules_records)
                   /\ RuleName(rules_records[n - 1]) = merchant_rules[r].merchant
          /\ \A p \in Procs :
                pc[p] \in {"built", "written"} =>
                   \A k \in DOMAIN result[p] :
                      LET row == transactions[result[p][k].id].sheets_row_id
                      IN /\ batch_updates[p][2 * k - 1].range = [col |-> "A", row |-> row]
                         /\ batch_updates[p][2 * k].range = [col |-> "F", row |-> row])
    /\ [][(txn_i' = txn_i + 1 /\ NewTxn # None) =>
             NewTxn[1].sheets_row_id = Some((txn_i' - 1) + 2)
         ]_vars

\* the first rule was skipped, the upsert of the second failed, and the
\* third is in the table with sheet row 4
C13_Witness ==
    /\ rules_i = 3
    /\ rules_records = <<RuleSpaces, RuleB, RuleA>>
    /\ rules_errors = 1
    /\ rules_migrated = 1
    /\ Len(merchant_rules) = 1
    /\ merchant_rules[1].merchant = TxtA
    /\ merchant_rules[1].sheets_row_id = Some(4)

\* the required variables that are unset or empty
Unusable == {v \in Range(required) : environ[v] \in {None, Some("")}}

\* C14: while one of the four required variables is unset or empty, main
\* constructs no client, reads no sheet, reads and writes no table, runs no
\* migration and no verification; it returns having reported exactly the
\* unset or empty variables.
C14_MissingVariableStopsMain ==
    Unusable # {} =>
       /\ main_pc \in {"idle", "returned"}
       /\ main_io = <<>>
       /\ rules_runs = 0 /\ alias_runs = 0 /\ txn_runs = 0
       /\ rules_records = <<>> /\ alias_records = <<>> /\ txn_row = None
       /\ rules_calls = 0 /\ alias_calls = 0 /\ txn_calls = <<>>
       /\ merchant_rules = <<>> /\ merchant_aliases = <<>> /\ transactions = <<>>
       /\ sheet = <<>>
       /\ (main_pc = "returned" =>
              /\ Range(main_missing) = Unusable
              /\ Len(main_missing) = Cardinality(Unusable))

\* main has returned on an empty SUPABASE_URL, the other three being set
C14_Witness ==
    /\ main_pc = "returned"
    /\ environ["SUPABASE_URL"] = Some("")
    /\ main_missing = <<"SUPABASE_URL">>
    /\ main_io = <<>>
    /\ rules_runs = 0

\* the records a step stamps: sheets_synced_at goes from null to a time
Stamped ==
    {id \in DOMAIN transactions :
        /\ transactions[id].sheets_synced_at = None
        /\ transactions'[id].sheets_synced_at # None}

\* the text a cell receives for a stored value
CellText(v) == IF v = None THEN "" ELSE v[1]

\* C15: a run that finds k >= 1 Dirty records queues exactly 2k single-cell
\* writes, A<row> with the status and F<row> with the account of each record,
\* a null as the empty text, and sends them as one batched write: the sheet
\* changes only in the one step from "built" to "written" and then holds
\* exactly those cells over the old ones.  A run that finds none returns 0
\* and neither writes the sheet nor stamps a record.
C15_OneBatchOfTwoCellsEach ==
    [][/\ (pc[1] # "built" /\ pc'[1] = "built") =>
             LET k == Len(result'[1])
                 ups == batch_updates'[1]
             IN /\ k >= 1
                /\ k = Min(100, Cardinality(Dirty(transactions)))
                /\ Len(ups) = 2 * k
                /\ \A j \in 1..k :
                      LET rec == transactions[result'[1][j].id]
                      IN /\ ups[2 * j - 1] =
                               [range |-> [col |-> "A", row |-> rec.sheets_row_id],
                                values |-> CellText(rec.status)]
                         /\ ups[2 * j] =
                               [range |-> [col |-> "F", row |-> rec.sheets_row_id],
                                values |-> CellText(rec.qb_account)]
                /\ sheet' = sheet
                /\ Stamped = {}
       /\ sheet' # sheet =>
             LET ups == batch_updates[1]
             IN /\ pc[1] = "built" /\ pc'[1] = "written"
                /\ \A a \in DOMAIN sheet' :
                      IF \E k \in DOMAIN ups : ups[k].range = a
                      THEN \E k \in DOMAIN ups : ups[k].range = a /\ sheet'[a] = ups[k].values
                      ELSE a \in DOMAIN sheet /\ sheet'[a] = sheet[a]
                /\ \A k \in DOMAIN ups : ups[k].range \in DOMAIN sheet'
       /\ (pc[1] \in {"idle", "done", "crashed"} /\ Dirty(transactions) = {}) =>
             /\ pc'[1] \in {pc[1], "done"}
             /\ pc'[1] # pc[1] => returned'[1] = Some(0)
             /\ batch_updates'[1] \in {batch_updates[1], <<>>}
             /\ sheet' = sheet
             /\ Stamped = {}
      ]_vars

\* a run has written the four cells of two records, one of them with a null
\* status, whose cell A is empty
C15_Witness ==
    /\ pc[1] = "written"
    /\ Len(result[1]) = 2
    /\ Len(batch_updates[1]) = 4
    /\ \E k \in DOMAIN result[1] :
          LET a == [col |-> "A", row |-> result[1][k].sheets_row_id]
          IN /\ result[1][k].status = None
             /\ a \in DOMAIN sheet
             /\ sheet[a] = ""

\* the number written by the digits of a text, read left to right, every
\* other character passed over
RECURSIVE DigitsOf(_, _)
DigitsOf(t, acc) ==
    IF t = <<>> THEN acc
    ELSE IF Head(t) \in {"0", "1", "2", "3", "4", "5", "6", "7", "8", "9"}
    THEN DigitsOf(Tail(t), 10 * acc + DigitVal(Head(t)))
    ELSE DigitsOf(Tail(t), acc)

\* C16: parse_txn_count returns a whole number unchanged and, for a text,
\* the number its digit characters write, 0 when it has none: "100+" gives
\* 100, 42 gives 42, "" gives 0, "N/A" gives 0; the call always returns.
C16_ParseTxnCount ==
    /\ count_out = None => ENABLED ParseCount
    /\ count_out # None =>
          /\ count_arg.kind = "int" => count_out[1] = count_arg.v
          /\ count_arg.kind = "text" => count_out[1] = DigitsOf(count_arg.v, 0)
          /\ (count_arg.kind = "text" /\ count_arg.v = <<"1", "0", "0", "+">>)
                => count_out[1] = 100
          /\ (count_arg.kind = "int" /\ count_arg.v = 42) => count_out[1] = 42
          /\ (count_arg.kind = "text" /\ count_arg.v = <<>>) => count_out[1] = 0
          /\ (count_arg.kind = "text" /\ count_arg.v = <<"N", "/", "A">>)
                => count_out[1] = 0

\* "100+" has been parsed to 100
C16_Witness ==
    /\ count_arg.kind = "text"
    /\ count_arg.v = Txt100Plus
    /\ count_out = Some(100)

\* the cells A and F of a record's row hold its stored status and account
RowShowsRecord(rec) ==
    LET a == [col |-> "A", row |-> rec.sheets_row_id]
        f == [col |-> "F", row |-> rec.sheets_row_id]
    IN /\ a \in DOMAIN sheet /\ sheet[a] = CellText(rec.status)
       /\ f \in DOMAIN sheet /\ sheet[f] = CellText(rec.qb_account)

\* C17: no update is lost: a record a downstream process has changed (and
\* whose sheets_synced_at it cleared) is never Synced while the cells A and F
\* of its row hold other values than the stored ones, also when the change
\* falls between a run's select and its stamping.
C17_NoLostUpdate ==
    \A id \in DOMAIN transactions :
       (/\ id \in cleared
        /\ transactions[id].sheets_row_id # None
        /\ transactions[id].sheets_synced_at # None)
          => RowShowsRecord(transactions[id])

\* C18: two runs of the sync overlap, nothing else writes the table: however
\* their selects, batched writes and stamps interleave, once a run has
\* returned every record it selected is Synced and the cells A and F of its
\* row hold the stored status and account, as after a single run; and no
\* cell of the sheet ever holds another value than the stored one of its row.
C18_OverlapIsHarmless ==
    /\ \A p \in Procs :
          (pc[p] = "done" /\ returned[p] # None) =>
             \A k \in DOMAIN result[p] :
                LET rec == transactions[result[p][k].id]
                IN /\ rec.sheets_synced_at # None
                   /\ RowShowsRecord(rec)
    /\ \A a \in DOMAIN sheet :
          \E id \in DOMAIN transactions :
             /\ transactions[id].sheets_row_id = a.row
             /\ sheet[a] = CellText(IF a.col = "A" THEN transactions[id].status
                                    ELSE transactions[id].qb_account)

\* both runs selected the same two records, both wrote and stamped them
C18_Witness ==
    /\ pc[1] = "done" /\ pc[2] = "done"
    /\ returned[1] = Some(2) /\ returned[2] = Some(2)
    /\ Len(result[1]) = 2
    /\ Ids(result[1]) = Ids(result[2])
    /\ applied[1] # {} /\ applied[2] # {}

\* C19: a run selects, writes and stamps at most 100 records; with every
\* write and update succeeding and no record becoming Dirty, the stamp of a
\* run takes min(100, remaining) records out of the Dirty ones, eventually
\* none is Dirty, and from then on a run changes neither table nor sheet.
C19_BacklogDrains ==
    /\ [](/\ Len(result[1]) <= 100
          /\ Len(synced_ids[1]) <= 100
          /\ Len(batch_updates[1]) <= 2 * 100)
    /\ [][(pc[1] = "written" /\ pc'[1] = "done") =>
             LET before == Cardinality(Dirty(transactions))
                 after == Cardinality(Dirty(transactions'))
             IN /\ after = before - Min(100, before)
                /\ returned'[1] = Some(Min(100, before))
         ]_vars
    /\ [][Dirty(transactions) = {} =>
             /\ transactions' = transactions
             /\ sheet' = sheet
             /\ pc'[1] \in {"idle", "done"}
         ]_vars
    /\ <>[](Dirty(transactions) = {})

\* a backlog of 102 records is drained: the second run stamped the last two
C19_Witness ==
    /\ Len(transactions) = 102
    /\ Dirty(transactions) = {}
    /\ pc[1] = "done"
    /\ returned[1] = Some(2)

\* a cell of a row is there and not empty
Filled(row, key, empty) == key \in DOMAIN row /\ row[key] # empty

\* C20: the record migrate_transactions builds from a row with a parseable
\* date has as merchant the Std Merchant cell when it is filled, else the Raw
\* Merchant cell, null when neither is filled; as entity the Entity cell when
\* filled, else "NEEDS REVIEW"; as status the Status cell when filled, else
\* the warning glyph; a row with a parseable date always yields a record.
C20_BuildDefaults ==
    [][txn_i' = txn_i + 1 =>
          LET row == txn_row'[1]
          IN /\ row.Date = TxtIsoDate => NewTxn # None
             /\ NewTxn # None =>
                   LET rec == NewTxn[1]
                   IN /\ rec.merchant =
                            IF Filled(row, "Std Merchant", <<>>)
                            THEN Some(row["Std Merchant"])
                            ELSE IF Filled(row, "Raw Merchant", <<>>)
                            THEN Some(row["Raw Merchant"])
                            ELSE None
                      /\ rec.entity =
                            IF Filled(row, "Entity", "") THEN row["Entity"]
                            ELSE "NEEDS REVIEW"
                      /\ rec.status =
                            IF Filled(row, "Status", "") THEN Some(row["Status"])
                            ELSE Some(WARNING_GLYPH)
      ]_vars

\* a record built from a row with an empty Std Merchant, a Raw Merchant, an
\* empty Entity and no Status column
C20_Witness ==
    /\ txn_row # None
    /\ "Status" \notin DOMAIN txn_row[1]
    /\ Filled(txn_row[1], "Raw Merchant", <<>>)
    /\ "Std Merchant" \in DOMAIN txn_row[1] /\ txn_row[1]["Std Merchant"] = <<>>
    /\ "Entity" \in DOMAIN txn_row[1] /\ txn_row[1]["Entity"] = ""
    /\ batch # <<>>
    /\ batch[Len(batch)].merchant = Some(TxtRawA)
    /\ batch[Len(batch)].entity = NEEDS_REVIEW
    /\ batch[Len(batch)].status = Some(WARNING_GLYPH)

=============================================================================
